---- MODULE Spec2Model ----
(***************************************************************************)
(* Model of garmin-run-gsheets-sync.                                       *)
(*                                                                         *)
(*   sync_garmin.main           the ingestion run: fetch the most recent   *)
(*                              activities, keep the running ones, load    *)
(*                              the dates already in the sheet, append a   *)
(*                              row per activity whose date is not there.  *)
(*   dashboard.create_dashboard the rollup: read the sheet, sum km and HM  *)
(*                              per (year, category), clear the Dashboard  *)
(*                              worksheet and write the new table.         *)
(*                                                                         *)
(* Every call to Garmin or to Google Sheets is one step; a call may fail.  *)
(* The sheet ("store") is the only state the runs share.                   *)
(*                                                                         *)
(* Numbers are fixed-point integers: metres for a distance (a km cell      *)
(* holds thousandths of a km), hundredths of a metre for a fetched         *)
(* elevation gain, tenths of a metre for an HM cell.  Of the eleven        *)
(* columns main writes, the model keeps the five that main or              *)
(* create_dashboard reads back: Datum, Name, km, HM, Typ.                  *)
(***************************************************************************)
EXTENDS Integers, Sequences, FiniteSets

VARIABLES
    source,              \* Garmin: the account's activities, most recent first
    store,               \* sheet1: its data rows, in sheet order (row 1, the header, is implicit)
    runs,                \* the ingestion runs started so far
    pc,                  \* pc[r]: where the ingestion run in process slot r stands
    google_creds_json,   \* main's local of that name, per run
    activities,          \* main's local: the fetched window
    running_activities,  \* main's local: the filtered window
    existing_dates,      \* main's local: the dedup index
    idx,                 \* position of the for loop in running_activities (1-based)
    new_entries,         \* main's local counter
    appended,            \* the rows run r's append_row calls have stored, in call order
    out,                 \* what run r has printed
    dpc,                 \* where create_dashboard stands
    dcreds,              \* create_dashboard's google_creds_json
    records,             \* create_dashboard's local: get_all_records()
    table_data,          \* create_dashboard's local: summary.values.tolist()
    dashboard,           \* the Dashboard worksheet: whether it exists, and its rows
    prior,               \* the Dashboard worksheet as create_dashboard found it
    dcalls,              \* the calls create_dashboard has made on the Dashboard worksheet
    dout                 \* what create_dashboard has printed

syncVars == <<pc, google_creds_json, activities, running_activities,
              existing_dates, idx, new_entries, appended, out>>
dashVars == <<dpc, dcreds, records, table_data, dashboard, prior, dcalls, dout>>
vars == <<source, store, runs, syncVars, dashVars>>

----------------------------------------------------------------------------
(* Bounds *)

MaxWindow == 2      \* activities the account holds at most
MaxInitRows == 1    \* data rows in the sheet before the first ingestion run
MaxRuns == 2        \* ingestion runs started
MaxRows == 4        \* data rows in the sheet the rollup reads

\* Process slots: a run is one invocation of the script; its locals start
\* afresh.  Two slots: two schedules that may invoke it.
Runs == {1, 2}

SeqsUpTo(S, n) == UNION {[1..k -> S] : k \in 0..n}

----------------------------------------------------------------------------
(* Values *)

\* A cell or field that holds a number, or something that is not one.
Num(v) == [num |-> TRUE, v |-> v]
Text == [num |-> FALSE, v |-> 0]

\* startTimeLocal values.  "" also stands for an absent key (.get's default);
\* "NULL" is a key present with JSON null.
T1 == "2024-05-01 07:30:00"
T2 == "2024-05-01 18:45:00"
T3 == "2023-11-20 09:00:00"

\* startTimeLocal[:10]
Date10(s) ==
    CASE s = T1 -> "2024-05-01"
      [] s = T2 -> "2024-05-01"
      [] s = T3 -> "2023-11-20"
      [] OTHER -> ""

\* str.lower() on the kind strings of the model
Lower(s) ==
    CASE s = "Trail_Running" -> "trail_running"
      [] s = "Running" -> "running"
      [] s = "Cycling" -> "cycling"
      [] OTHER -> s

\* Fetched activities.  type: the typeKey; "MISSING" for no activityType key,
\* "NULL_TYPE" for activityType null, "NULL_KEY" for typeKey null.
\* name: "MISSING" for no activityName key.
Activity(s, n, t, d, e) ==
    [start |-> s, name |-> n, type |-> t, distance |-> d, elevation |-> e]

ActivityPool ==
    { Activity(T1, "Morning Run", "running", Num(5004), 1052),
      Activity(T2, "Morning Run", "Trail_Running", Num(10012), 2047),
      Activity("", "MISSING", "treadmill_running", Num(0), 0),
      Activity("NULL", "Morning Run", "running", Num(5004), 0),
      Activity(T3, "Long Run", "running", Text, 1052),
      Activity(T3, "Ride", "cycling", Num(10012), 2047),
      Activity(T3, "Long Run", "NULL_TYPE", Num(5004), 0),
      Activity(T3, "Long Run", "NULL_KEY", Num(5004), 0) }

\* round(x, 2) of a km value given in thousandths; the model's values have
\* no tie (a last digit 5), so the rounding mode does not show.
Round2(m) == ((m + 5) \div 10) * 10

\* round(x, 1) of metres given in hundredths, as tenths; no ties either.
Round1(e) == (e + 5) \div 10

Row(d, n, k, h, t) == [Datum |-> d, Name |-> n, km |-> k, HM |-> h, Typ |-> t]

HeaderRow == Row("Datum", "Name", Text, Text, "Typ")

\* Printed lines
Entry(k, d, n, t) == [kind |-> k, date |-> d, name |-> n, text |-> t]
Line(k) == Entry(k, "-", "-", "-")

Ended == {"done", "raised"}

----------------------------------------------------------------------------
(* sync_garmin.main *)

Take(s, n) == IF Len(s) <= n THEN s ELSE SubSeq(s, 1, n)

\* line 65: get_activities(0, 20)
FetchLimit == 20

\* activity.get('activityType', {}).get('typeKey', '').lower(): raises on a
\* null activityType (None.get) and on a null typeKey (None.lower)
FilterRaises(a) == a.type \in {"NULL_TYPE", "NULL_KEY"}

TypeKeyOr(a, default) == IF a.type = "MISSING" THEN default ELSE a.type

\* The comprehension with its condition left out.
IsRunning_NoFilter(a) == TRUE

\* lines 72-75: the comprehension's condition
IsRunning(a) ==
    Lower(TypeKeyOr(a, "")) \in {"running", "treadmill_running", "trail_running"}

\* sheet.get_all_values()
GetAllValues == <<HeaderRow>> \o store

\* lines 104-108
ExistingDates(existing_data) ==
    IF Len(existing_data) > 1
    THEN {existing_data[i].Datum : i \in 2..Len(existing_data)} \ {""}
    ELSE {}

\* The check made against the sheet as it is now, not against the run's index.
AlreadyExists_Fresh(r, activity_date) == activity_date \in ExistingDates(GetAllValues)

\* line 122
AlreadyExists(r, activity_date) == activity_date \in existing_dates[r]

ActivityName(a) == IF a.name = "MISSING" THEN "Run" ELSE a.name

\* lines 119 and 129: what raises inside the loop's try
DateRaises(a) == a.start = "NULL"
ExtractRaises(a) == ~a.distance.num

\* lines 126-153
MakeRow(a) ==
    Row(Date10(a.start),
        ActivityName(a),
        IF a.distance.v # 0 THEN Num(Round2(a.distance.v)) ELSE Num(0),
        IF a.elevation # 0 THEN Num(Round1(a.elevation)) ELSE Num(0),
        TypeKeyOr(a, "running"))

Emit(r, e) == out' = [out EXCEPT ![r] = Append(@, e)]

\* lines 29-50: a new invocation in slot r
Start(r) ==
    /\ pc[r] \in {"idle"} \cup Ended
    /\ runs < MaxRuns
    /\ runs' = runs + 1
    /\ activities' = [activities EXCEPT ![r] = <<>>]
    /\ running_activities' = [running_activities EXCEPT ![r] = <<>>]
    /\ existing_dates' = [existing_dates EXCEPT ![r] = {}]
    /\ idx' = [idx EXCEPT ![r] = 1]
    /\ new_entries' = [new_entries EXCEPT ![r] = 0]
    /\ appended' = [appended EXCEPT ![r] = <<>>]
    /\ \E env \in {"ok", "missing", "bad_json"} :
         /\ google_creds_json' = [google_creds_json EXCEPT ![r] = env]
         /\ IF env = "missing"
            THEN /\ out' = [out EXCEPT ![r] = <<Line("missing_env")>>]
                 /\ pc' = [pc EXCEPT ![r] = "done"]
            ELSE /\ out' = [out EXCEPT ![r] = <<>>]
                 /\ pc' = [pc EXCEPT ![r] = "login"]
    /\ UNCHANGED <<source, store, dashVars>>

\* lines 52-60
Login(r) ==
    /\ pc[r] = "login"
    /\ \E ok \in BOOLEAN :
         IF ok
         THEN pc' = [pc EXCEPT ![r] = "fetch"] /\ UNCHANGED out
         ELSE pc' = [pc EXCEPT ![r] = "done"] /\ Emit(r, Line("garmin_failed"))
    /\ UNCHANGED <<source, store, runs, google_creds_json, activities, running_activities,
                   existing_dates, idx, new_entries, appended, dashVars>>

\* lines 62-69
Fetch(r) ==
    /\ pc[r] = "fetch"
    /\ \E ok \in BOOLEAN :
         IF ok
         THEN /\ activities' = [activities EXCEPT ![r] = Take(source, FetchLimit)]
              /\ pc' = [pc EXCEPT ![r] = "filter"]
              /\ UNCHANGED out
         ELSE /\ pc' = [pc EXCEPT ![r] = "done"]
              /\ Emit(r, Line("fetch_failed"))
              /\ UNCHANGED activities
    /\ UNCHANGED <<source, store, runs, google_creds_json, running_activities,
                   existing_dates, idx, new_entries, appended, dashVars>>

\* lines 71-81
Filter(r) ==
    /\ pc[r] = "filter"
    /\ IF \E i \in 1..Len(activities[r]) : FilterRaises(activities[r][i])
       THEN /\ pc' = [pc EXCEPT ![r] = "raised"]
            /\ UNCHANGED <<running_activities, out>>
       ELSE LET kept == SelectSeq(activities[r], IsRunning) IN
            /\ running_activities' = [running_activities EXCEPT ![r] = kept]
            /\ IF kept = <<>>
               THEN /\ pc' = [pc EXCEPT ![r] = "done"]
                    /\ Emit(r, Line("no_running"))
               ELSE /\ pc' = [pc EXCEPT ![r] = "connect"]
                    /\ UNCHANGED out
    /\ UNCHANGED <<source, store, runs, google_creds_json, activities, existing_dates,
                   idx, new_entries, appended, dashVars>>

\* lines 83-99
Connect(r) ==
    /\ pc[r] = "connect"
    /\ \E ok \in BOOLEAN :
         IF ok /\ google_creds_json[r] = "ok"
         THEN /\ pc' = [pc EXCEPT ![r] = "read"]
              /\ out' = [out EXCEPT ![r] = Append(@, Line("connecting_sheets"))]
         ELSE /\ pc' = [pc EXCEPT ![r] = "done"]
              /\ out' = [out EXCEPT ![r] =
                            @ \o <<Line("connecting_sheets"), Line("sheets_failed")>>]
    /\ UNCHANGED <<source, store, runs, google_creds_json, activities, running_activities,
                   existing_dates, idx, new_entries, appended, dashVars>>

\* lines 101-115
ReadExisting(r) ==
    /\ pc[r] = "read"
    /\ \E ok \in BOOLEAN :
         IF ok
         THEN /\ existing_dates' = [existing_dates EXCEPT ![r] = ExistingDates(GetAllValues)]
              /\ UNCHANGED out
         ELSE /\ existing_dates' = [existing_dates EXCEPT ![r] = {}]
              /\ Emit(r, Line("read_warning"))
    /\ new_entries' = [new_entries EXCEPT ![r] = 0]
    /\ idx' = [idx EXCEPT ![r] = 1]
    /\ pc' = [pc EXCEPT ![r] = "loop"]
    /\ UNCHANGED <<source, store, runs, google_creds_json, activities, running_activities,
                   appended, dashVars>>

\* lines 116-162: one iteration of the loop
Process(r) ==
    /\ pc[r] = "loop"
    /\ idx[r] <= Len(running_activities[r])
    /\ LET a == running_activities[r][idx[r]] IN
       \/ /\ DateRaises(a) \/ (~AlreadyExists(r, Date10(a.start)) /\ ExtractRaises(a))
          /\ Emit(r, Entry("error", "-", "-", "TypeError"))
          /\ UNCHANGED <<store, new_entries, appended>>
       \/ /\ ~DateRaises(a)
          /\ AlreadyExists(r, Date10(a.start))
          /\ Emit(r, Entry("skip", Date10(a.start), "-", "-"))
          /\ UNCHANGED <<store, new_entries, appended>>
       \/ /\ ~DateRaises(a)
          /\ ~AlreadyExists(r, Date10(a.start))
          /\ ~ExtractRaises(a)
          /\ \E ok \in BOOLEAN :
               IF ok
               THEN /\ store' = Append(store, MakeRow(a))
                    /\ appended' = [appended EXCEPT ![r] = Append(@, MakeRow(a))]
                    /\ new_entries' = [new_entries EXCEPT ![r] = @ + 1]
                    /\ Emit(r, Entry("added", Date10(a.start), ActivityName(a), "-"))
               ELSE /\ Emit(r, Entry("error", "-", "-", "APIError"))
                    /\ UNCHANGED <<store, new_entries, appended>>
    /\ idx' = [idx EXCEPT ![r] = @ + 1]
    /\ UNCHANGED <<source, runs, pc, google_creds_json, activities, running_activities,
                   existing_dates, dashVars>>

\* lines 164-167
Finish(r) ==
    /\ pc[r] = "loop"
    /\ idx[r] > Len(running_activities[r])
    /\ pc' = [pc EXCEPT ![r] = "done"]
    /\ Emit(r, Line(IF new_entries[r] > 0 THEN "added_summary" ELSE "nothing_new"))
    /\ UNCHANGED <<source, store, runs, google_creds_json, activities, running_activities,
                   existing_dates, idx, new_entries, appended, dashVars>>

\* Garmin records a new activity: it becomes the most recent one.  Only
\* Fetch reads the source, so an arrival at any other moment is the same as
\* one just before the next fetch.
NewActivity ==
    /\ \E r \in Runs : pc[r] = "fetch"
    /\ Len(source) < MaxWindow
    /\ \E a \in ActivityPool : source' = <<a>> \o source
    /\ UNCHANGED <<store, runs, syncVars, dashVars>>

Step(r) ==
    \/ Login(r)
    \/ Fetch(r)
    \/ Filter(r)
    \/ Connect(r)
    \/ ReadExisting(r)
    \/ Process(r)
    \/ Finish(r)

KeysDistinct(s) ==
    \A i, j \in 1..Len(s) :
        (s[i].Datum = s[j].Datum /\ s[i].Name = s[j].Name) => i = j

InitRowPool ==
    { Row("2024-05-01", "Morning Run", Num(5000), Num(105), "running"),
      Row("2023-11-20", "Long Run", Num(21100), Num(2047), "running") }

SyncIdle ==
    /\ pc = [r \in Runs |-> "idle"]
    /\ google_creds_json = [r \in Runs |-> "unset"]
    /\ activities = [r \in Runs |-> <<>>]
    /\ running_activities = [r \in Runs |-> <<>>]
    /\ existing_dates = [r \in Runs |-> {}]
    /\ idx = [r \in Runs |-> 1]
    /\ new_entries = [r \in Runs |-> 0]
    /\ appended = [r \in Runs |-> <<>>]
    /\ out = [r \in Runs |-> <<>>]

Absent == [exists |-> FALSE, rows |-> <<>>]

DashIdle ==
    /\ dpc = "idle"
    /\ dcreds = "unset"
    /\ records = <<>>
    /\ table_data = <<>>
    /\ prior = Absent
    /\ dcalls = {}
    /\ dout = <<>>

Init ==
    /\ runs = 0
    /\ source \in SeqsUpTo(ActivityPool, MaxWindow)
    /\ store \in {s \in SeqsUpTo(InitRowPool, MaxInitRows) : KeysDistinct(s)}
    /\ SyncIdle
    /\ DashIdle
    /\ dashboard = Absent

\* The slot of the latest run started, and the other one.
Latest == 2 - (runs % 2)
Other(r) == 3 - r

\* Serialized runs: a run starts when the one before it has ended; the
\* schedules take turns.
StartSerial(r) ==
    /\ r = Other(Latest)
    /\ pc[Latest] \in {"idle"} \cup Ended
    /\ Start(r)

Next ==
    \/ \E r \in Runs : StartSerial(r)
    \/ \E r \in Runs : Step(r)
    \/ NewActivity

Spec == Init /\ [][Next]_vars

\* Two schedules that do not wait for each other, one run each.
StartConc(r) ==
    /\ pc[r] = "idle"
    /\ Start(r)

NextConc ==
    \/ \E r \in Runs : StartConc(r)
    \/ \E r \in Runs : Step(r)
    \/ NewActivity

SpecConc == Init /\ [][NextConc]_vars

----------------------------------------------------------------------------
(* dashboard.create_dashboard *)

\* lines 25-41
CATEGORY_MAP(k) ==
    CASE k \in {"cycling", "road_biking", "gravel_cycling", "virtual_ride",
                "mountain_biking"} -> "Cycling"
      [] k \in {"running", "street_running", "trail_running", "track_running"} -> "Running"
      [] k \in {"lap_swimming", "open_water_swimming", "swimming"} -> "Swimming"
      [] k \in {"hiking", "walking"} -> "Hiking/Walking"
      [] k \in {"strength_training", "indoor_cardio", "pilates", "mobility",
                "yoga"} -> "Fitness/Indoor"
      [] k \in {"backcountry_skiing", "resort_skiing", "nordic_skiing"} -> "Skiing"
      [] OTHER -> "Other"

\* The lookup without .lower().
Categorize_NoLower(x) == CATEGORY_MAP(x)

\* line 63: CATEGORY_MAP.get(str(x).lower(), 'Other')
Categorize(x) == CATEGORY_MAP(Lower(x))

NaT == 0

\* lines 54-56: pd.to_datetime(errors='coerce') and .dt.year
ParseDate(d) ==
    CASE d \in {"2024-05-01", "2024-06-10"} -> 2024
      [] d = "2023-11-20" -> 2023
      [] OTHER -> NaT

\* lines 59-60: pd.to_numeric(errors='coerce').fillna(0)
ToNumeric(c) == IF c.num THEN c.v ELSE 0

\* line 73: int(float(x)) of metres given in tenths
IntTrunc(t) == IF t >= 0 THEN t \div 10 ELSE -((-t) \div 10)

\* lines 54-63: the frame after the preparation
Prepare(r) ==
    [Jahr |-> ParseDate(r.Datum), Kategorie |-> Categorize(r.Typ),
     km |-> ToNumeric(r.km), HM |-> ToNumeric(r.HM)]

Parseable(r) == ParseDate(r.Datum) # NaT

Frame(recs) ==
    LET kept == SelectSeq(recs, Parseable) IN [i \in 1..Len(kept) |-> Prepare(kept[i])]

RECURSIVE GroupSum(_, _, _, _)
\* the 'sum' of one group: column col over the frame's rows of (jahr, kat)
GroupSum(df, jahr, kat, col) ==
    IF df = <<>> THEN 0
    ELSE LET r == Head(df)
             v == IF col = "km" THEN r.km ELSE r.HM
         IN (IF r.Jahr = jahr /\ r.Kategorie = kat THEN v ELSE 0)
              + GroupSum(Tail(df), jahr, kat, col)

\* lines 66-73: groupby, sum, round
Summary(recs) ==
    LET df == Frame(recs)
        keys == {<<df[i].Jahr, df[i].Kategorie>> : i \in 1..Len(df)}
    IN { [Jahr |-> k[1], Kategorie |-> k[2],
          km |-> Round2(GroupSum(df, k[1], k[2], "km")),
          HM |-> IntTrunc(GroupSum(df, k[1], k[2], "HM"))] : k \in keys }

\* line 76: the orders sort_values(by=['Jahr', 'km'], ascending=[False, False])
\* can give; rows that tie on both columns come in either order
SortedLists(S) ==
    { t \in [1..Cardinality(S) -> S] :
        /\ \A i, j \in 1..Cardinality(S) : i # j => t[i] # t[j]
        /\ \A i, j \in 1..Cardinality(S) :
             i < j => \/ t[i].Jahr > t[j].Jahr
                      \/ (t[i].Jahr = t[j].Jahr /\ t[i].km >= t[j].km) }

ViewRow(k, s, j, c, d, h) ==
    [kind |-> k, stamp |-> s, Jahr |-> j, Kategorie |-> c, km |-> d, HM |-> h]
TextRow(k, s) == ViewRow(k, s, 0, "", 0, 0)

\* lines 87-98: header + table_header + table_data
Content(now, data) ==
    <<TextRow("title", ""), TextRow("unit", ""), TextRow("stand", now),
      TextRow("blank", ""), TextRow("columns", "")>>
    \o [i \in 1..Len(data) |->
          ViewRow("data", "", data[i].Jahr, data[i].Kategorie, data[i].km, data[i].HM)]

Stamps == {"03.11.2026 20:00", "04.11.2026 06:00"}

DEmit(e) == dout' = Append(dout, e)

\* lines 10-15
DStart ==
    /\ dpc = "idle"
    /\ \E env \in {"ok", "missing", "bad_json"} :
         IF env = "missing"
         THEN dpc' = "done" /\ DEmit("missing_env") /\ UNCHANGED dcreds
         ELSE dpc' = "auth" /\ dcreds' = env /\ UNCHANGED dout
    /\ UNCHANGED <<source, store, runs, syncVars, records, table_data, dashboard, prior, dcalls>>

\* lines 17-22, outside the try
DAuth ==
    /\ dpc = "auth"
    /\ \E ok \in BOOLEAN :
         dpc' = IF ok /\ dcreds = "ok" THEN "read" ELSE "raised"
    /\ UNCHANGED <<source, store, runs, syncVars, dcreds, records, table_data, dashboard,
                   prior, dcalls, dout>>

\* The read without the 'if not records' return.
DRead_NoGuard ==
    /\ dpc = "read"
    /\ \E ok \in BOOLEAN :
         IF ok
         THEN records' = store /\ dpc' = "aggregate" /\ UNCHANGED dout
         ELSE dpc' = "done" /\ DEmit("error") /\ UNCHANGED records
    /\ UNCHANGED <<source, store, runs, syncVars, dcreds, table_data, dashboard, prior, dcalls>>

\* lines 44-49
DRead ==
    /\ dpc = "read"
    /\ \E ok \in BOOLEAN :
         IF ok
         THEN /\ records' = store
              /\ IF store = <<>>
                 THEN dpc' = "done" /\ DEmit("no_data")
                 ELSE dpc' = "aggregate" /\ UNCHANGED dout
         ELSE dpc' = "done" /\ DEmit("error") /\ UNCHANGED records
    /\ UNCHANGED <<source, store, runs, syncVars, dcreds, table_data, dashboard, prior, dcalls>>

\* lines 51-76
DAggregate ==
    /\ dpc = "aggregate"
    /\ table_data' \in SortedLists(Summary(records))
    /\ dpc' = "sheet"
    /\ UNCHANGED <<source, store, runs, syncVars, dcreds, records, dashboard, prior, dcalls, dout>>

\* lines 79-82
DSheet ==
    /\ dpc = "sheet"
    /\ \E ok \in BOOLEAN :
         IF ~ok
         THEN /\ dpc' = "done" /\ DEmit("error")
              /\ dcalls' = dcalls \cup {"worksheet"}
              /\ UNCHANGED dashboard
         ELSE IF dashboard.exists
         THEN /\ dpc' = "clear"
              /\ dcalls' = dcalls \cup {"worksheet"}
              /\ UNCHANGED <<dashboard, dout>>
         ELSE \E created \in BOOLEAN :
              /\ dcalls' = dcalls \cup {"worksheet", "add_worksheet"}
              /\ IF created
                 THEN /\ dashboard' = [exists |-> TRUE, rows |-> <<>>]
                      /\ dpc' = "clear"
                      /\ UNCHANGED dout
                 ELSE dpc' = "done" /\ DEmit("error") /\ UNCHANGED dashboard
    /\ UNCHANGED <<source, store, runs, syncVars, dcreds, records, table_data, prior>>

\* line 84
DClear ==
    /\ dpc = "clear"
    /\ dcalls' = dcalls \cup {"clear"}
    /\ \E ok \in BOOLEAN :
         IF ok
         THEN /\ dashboard' = [dashboard EXCEPT !.rows = <<>>]
              /\ dpc' = "update"
              /\ UNCHANGED dout
         ELSE dpc' = "done" /\ DEmit("error") /\ UNCHANGED dashboard
    /\ UNCHANGED <<source, store, runs, syncVars, dcreds, records, table_data, prior>>

\* lines 86-100
DUpdate ==
    /\ dpc = "update"
    /\ dcalls' = dcalls \cup {"update"}
    /\ \E ok \in BOOLEAN, now \in Stamps :
         IF ok
         THEN /\ dashboard' = [dashboard EXCEPT !.rows = Content(now, table_data)]
              /\ DEmit("success")
         ELSE DEmit("error") /\ UNCHANGED dashboard
    /\ dpc' = "done"
    /\ UNCHANGED <<source, store, runs, syncVars, dcreds, records, table_data, prior>>

RowPool ==
    { Row("2024-05-01", "Morning Run", Num(5000), Num(105), "running"),
      Row("2024-05-01", "Evening Run", Num(10012), Num(2047), "Trail_Running"),
      Row("2024-06-10", "Ride", Num(30000), Text, "cycling"),
      Row("2023-11-20", "Long Run", Num(21100), Num(2047), "running"),
      Row("n/a", "Run", Num(5000), Num(105), "running"),
      Row("2023-11-20", "Treadmill", Text, Num(0), "treadmill_running") }

OldContent ==
    Content("01.01.2026 08:00",
            <<[Jahr |-> 2023, Kategorie |-> "Running", km |-> 21100, HM |-> 204]>>)

PriorViews ==
    { Absent, [exists |-> TRUE, rows |-> <<>>], [exists |-> TRUE, rows |-> OldContent] }

InitDash ==
    /\ runs = 0
    /\ source = <<>>
    /\ store \in SeqsUpTo(RowPool, MaxRows)
    /\ SyncIdle
    /\ dpc = "idle"
    /\ dcreds = "unset"
    /\ records = <<>>
    /\ table_data = <<>>
    /\ dashboard \in PriorViews
    /\ prior = dashboard
    /\ dcalls = {}
    /\ dout = <<>>

NextDash ==
    \/ DStart
    \/ DAuth
    \/ DRead
    \/ DAggregate
    \/ DSheet
    \/ DClear
    \/ DUpdate

SpecDash == InitDash /\ [][NextDash]_vars

----------------------------------------------------------------------------
(* Properties *)

Kinds(log) == {log[i].kind : i \in 1..Len(log)}
Count(s, x) == Cardinality({i \in 1..Len(s) : s[i] = x})

\* The run went through its whole loop and no call or record failed in it.
Clean(r) ==
    /\ pc[r] = "done"
    /\ Kinds(out[r]) \cap {"added_summary", "nothing_new"} # {}
    /\ Kinds(out[r]) \cap {"error", "read_warning"} = {}

\* C1: no two data rows of the store share the same (start timestamp,
\* activity name) pair, after any number of serialized ingestion runs from a
\* store whose keys are pairwise distinct.
C1_KeysUnique == KeysDistinct(store)

\* C2: a run that follows a run over the same fetched window, with no failure
\* in either and nothing else writing the store, appends zero rows.
C2_Idempotent ==
    LET s == Latest
        r == Other(Latest)
    IN (runs >= 2 /\ Clean(r) /\ Clean(s) /\ activities[r] = activities[s])
            => new_entries[s] = 0

ErrorsOf(r) == SelectSeq(out[r], LAMBDA e : e.kind = "error")

\* The printed line names the activity: its date or its name.
References(e, a) ==
    \/ e.name = ActivityName(a)
    \/ (~DateRaises(a) /\ e.date = Date10(a.start))

\* C3: a run over N activities, none already stored, in which exactly one
\* activity k raises, appends N-1 rows and records exactly one error entry,
\* which references activity k.
C3_Isolation ==
    \A r \in Runs :
        ( /\ pc[r] = "done"
          /\ Kinds(out[r]) \cap {"added_summary", "nothing_new"} # {}
          /\ "skip" \notin Kinds(out[r])
          /\ Len(ErrorsOf(r)) = 1 )
        => /\ new_entries[r] = Len(running_activities[r]) - 1
           /\ \E k \in 1..Len(running_activities[r]) :
                References(ErrorsOf(r)[1], running_activities[r][k])

\* C4: whenever the rollup has ended, the Dashboard view holds its content
\* from before the run or the complete new content.
C4_Atomic ==
    dpc \in Ended =>
        \/ dashboard = prior
        \/ /\ dashboard.exists
           /\ "update" \in dcalls
           /\ \E now \in Stamps : dashboard.rows = Content(now, table_data)

\* C5: a rollup that reads zero data rows goes no further: it invokes no
\* worksheet lookup or creation, no clear and no update, and the Dashboard
\* view stays as it was.
C5_EmptyGuard ==
    (dpc \notin {"idle", "auth", "read"} /\ records = <<>>)
        => /\ dpc \in Ended
           /\ dcalls = {}
           /\ dashboard = prior

C5_Witness ==
    /\ dpc = "done"
    /\ dout = <<"no_data">>
    /\ prior.rows = OldContent
    /\ dashboard = prior

DataRows(view) == SelectSeq(view.rows, LAMBDA v : v.kind = "data")

\* The stored rows of one (year, label) pair, by index.
C6_Group(jahr, kat) ==
    {i \in 1..Len(store) :
        /\ ParseDate(store[i].Datum) # NaT
        /\ ParseDate(store[i].Datum) = jahr
        /\ CATEGORY_MAP(Lower(store[i].Typ)) = kat}

RECURSIVE C6_SumKm(_)
C6_SumKm(S) ==
    IF S = {} THEN 0
    ELSE LET i == CHOOSE x \in S : TRUE
         IN (IF store[i].km.num THEN store[i].km.v ELSE 0) + C6_SumKm(S \ {i})

RECURSIVE C6_SumHM(_)
C6_SumHM(S) ==
    IF S = {} THEN 0
    ELSE LET i == CHOOSE x \in S : TRUE
         IN (IF store[i].HM.num THEN store[i].HM.v ELSE 0) + C6_SumHM(S \ {i})

\* One written row per (year, label) pair of the stored rows with a
\* parseable date, ordered by year descending.
C6_Shape(D) ==
    /\ \A i \in 1..Len(store) :
         ParseDate(store[i].Datum) # NaT =>
            \E j \in 1..Len(D) : i \in C6_Group(D[j].Jahr, D[j].Kategorie)
    /\ \A j \in 1..Len(D) : C6_Group(D[j].Jahr, D[j].Kategorie) # {}
    /\ \A j, k \in 1..Len(D) :
         (D[j].Jahr = D[k].Jahr /\ D[j].Kategorie = D[k].Kategorie) => j = k
    /\ \A j, k \in 1..Len(D) : j < k => D[j].Jahr >= D[k].Jahr

Written == dpc = "done" /\ dout = <<"success">>

\* C6 as stated: the written totals are the sums themselves (km in
\* thousandths, an HM total in metres against a sum in tenths).
C6_ExactSums ==
    Written =>
        LET D == DataRows(dashboard) IN
        /\ C6_Shape(D)
        /\ \A j \in 1..Len(D) :
             /\ D[j].km = C6_SumKm(C6_Group(D[j].Jahr, D[j].Kategorie))
             /\ D[j].HM * 10 = C6_SumHM(C6_Group(D[j].Jahr, D[j].Kategorie))

\* C6 as amended: the distance total is the sum rounded to 2 decimals and
\* the elevation total is the sum cut to a whole number of metres.
C6_RoundedSums ==
    Written =>
        LET D == DataRows(dashboard) IN
        /\ C6_Shape(D)
        /\ \A j \in 1..Len(D) :
             /\ D[j].km = Round2(C6_SumKm(C6_Group(D[j].Jahr, D[j].Kategorie)))
             /\ D[j].HM = IntTrunc(C6_SumHM(C6_Group(D[j].Jahr, D[j].Kategorie)))

C6_Witness ==
    /\ Written
    /\ Len(DataRows(dashboard)) >= 2
    /\ \E i \in 1..Len(store) : ParseDate(store[i].Datum) = NaT
    /\ \E j \in 1..Len(table_data) :
         Cardinality(C6_Group(table_data[j].Jahr, table_data[j].Kategorie)) >= 2

\* C7: neither entry point ends by raising.
C7_NoRaise == (\A r \in Runs : pc[r] # "raised") /\ dpc # "raised"

\* C8: a run whose read of the existing rows failed goes no further and
\* appends no row.
C8_ReadFatal ==
    \A r \in Runs :
        "read_warning" \in Kinds(out[r]) => (pc[r] \in Ended /\ appended[r] = <<>>)

\* C9: nothing in the engine stops two runs that both loaded their index
\* without an activity's date: when both have gone through their loops
\* without a failure, each has appended that activity, and the store holds
\* its row at least twice.
C9_BothAppend ==
    \A r, s \in Runs :
        (r # s /\ Clean(r) /\ Clean(s)) =>
            \A i \in 1..Len(running_activities[r]) :
                LET a == running_activities[r][i] IN
                ( /\ Date10(a.start) \notin existing_dates[r]
                  /\ Date10(a.start) \notin existing_dates[s]
                  /\ \E j \in 1..Len(running_activities[s]) : running_activities[s][j] = a )
                => Count(store, MakeRow(a)) >= 2

C9_Witness ==
    \E a \in ActivityPool :
        /\ Date10(a.start) # ""
        /\ Count(store, MakeRow(a)) = 2
        /\ \A r \in Runs :
             /\ Clean(r)
             /\ activities[r] = <<a>>
             /\ appended[r] = <<MakeRow(a)>>

RECURSIVE IsSubseq(_, _)
IsSubseq(s, t) ==
    IF s = <<>> THEN TRUE
    ELSE IF t = <<>> THEN FALSE
    ELSE IF Head(s) = Head(t) THEN IsSubseq(Tail(s), Tail(t))
    ELSE IsSubseq(s, Tail(t))

C10_RunningKind(a) ==
    Lower(a.type) \in {"running", "treadmill_running", "trail_running"}

C10_Candidates(r) ==
    LET kept == SelectSeq(activities[r], C10_RunningKind)
    IN [i \in 1..Len(kept) |-> MakeRow(kept[i])]

\* C10: the rows a run appends are rows of fetched activities of a running
\* kind, each activity at most once and in the order fetched; with no such
\* activity in the window the run never connects to the store.
C10_OnlyRunning ==
    \A r \in Runs :
        /\ IsSubseq(appended[r], C10_Candidates(r))
        /\ new_entries[r] = Len(appended[r])
        /\ C10_Candidates(r) = <<>> =>
             /\ pc[r] \notin {"connect", "read", "loop"}
             /\ "connecting_sheets" \notin Kinds(out[r])

C10_Witness ==
    \E r \in Runs :
        /\ pc[r] = "done"
        /\ Len(activities[r]) = 2
        /\ Len(appended[r]) = 1
        /\ ~C10_RunningKind(activities[r][1])
        /\ C10_RunningKind(activities[r][2])

====
